---- MODULE Spec2Model ----
(***************************************************************************)
(* Model of battery_age/age.py: the half-second main loop that detects     *)
(* release edges on three charger signals, runs the Idle/Monitoring        *)
(* lifecycle, samples the battery voltage every 60 iterations and prints a *)
(* capacity estimate when a discharge cycle ends.                          *)
(*                                                                         *)
(* One step of the model is one iteration of `while True` (age.py:127-180).*)
(* Voltages are exact: get_volts is value*3.3/65536/0.684, which is        *)
(* value*275/3735552 volt, so a voltage is kept as the integer value*275   *)
(* in units of 1/3735552 volt.                                             *)
(***************************************************************************)
EXTENDS Integers, Sequences, FiniteSets, TLC

\* Longest voltage list the model lets a discharge cycle collect.
MaxSamples == 2

\* voltage_sense.value readings the sensor may return (about 3.0 V and 3.3 V).
RawCounts == {40752, 44827}

\* age.py:130, the iteration count at which half_sec is reset.
half_sec_wrap == 60

VARIABLES
    half_sec,           \* age.py:75
    b_cb_down,          \* age.py:61
    b_cc_down,          \* age.py:62
    b_ca_down,          \* age.py:63
    monitoring,         \* age.py:66
    voltage,            \* age.py:69
    event_cb,           \* age.py:134
    event_cc,           \* age.py:135
    event_ca,           \* age.py:136
    s_charge_begin,     \* age.py:41, the values .value returned to the latest
    s_charge_complete,  \* age.py:47, iteration, in the order they were read
    s_charge_abort,     \* age.py:53
    out,                \* lines printed by the latest iteration, in order
    sense_reads,        \* reads of voltage_sense.value in the latest iteration
    elapsed,            \* kept by SpecTimed only: iterations since monitoring
                        \* began, while the first sample of the cycle is awaited
                        \* and in the iteration that takes it; else 0
    report,             \* the values of the capacity estimate completed by the
                        \* latest iteration, as a one-element sequence; else <<>>
    pc                  \* "start" before the first iteration, "loop" after an
                        \* iteration, "fault" once an exception ended the script

vars == <<half_sec, b_cb_down, b_cc_down, b_ca_down, monitoring, voltage,
          event_cb, event_cc, event_ca, s_charge_begin, s_charge_complete,
          s_charge_abort, out, sense_reads, elapsed, report, pc>>

\* The values s.value may return to one iteration: `b_down and s.value`
\* (age.py:137-141) reads the pin only when b_down holds, `not s.value`
\* (age.py:144-146) always reads it, and the pin may change in between.
pin_reads(down) ==
    IF down THEN {<<l1, l2>> : l1 \in BOOLEAN, l2 \in BOOLEAN}
            ELSE {<<l2>> : l2 \in BOOLEAN}

\* The outcome of voltage_sense.value when the read raises instead of
\* returning a count (age.py:85); counts are 0..65535.
read_failure == -1

\* The outcomes voltage_sense.value may have in one iteration, out of
\* `outcomes`: get_volts is called only when the periodic sample is due
\* (age.py:177-178).
sensor_reads(outcomes, due) == IF due THEN outcomes ELSE {0}

----------------------------------------------------------------------------
\* The lines the script prints (the text of each print format).
L_end_monitoring == "end monitoring; new charging cycle begun."
L_estimate_after == "capacity estimate after"
L_average_current == "average current"
L_capacity_used == "capacity used"
L_monitor_start == "voltage monitor start"
L_monitor_end == "voltage monitor end"
L_adjusted_cutoff == "adjusted voltage cutoff"
L_predicted_total == "predicted total capacity"
L_error_complete == "ERROR: inconsistent charge complete signal"
L_error_abort == "ERROR: inconsistent charge abort signal"
L_begin_monitoring == "begin monitoring"
L_minutes_voltage == "minutes, voltage"

----------------------------------------------------------------------------
\* age.py:77-86. The result is in units of 1/3735552 volt.
get_volts(value) == value * 275

\* Mutant of next_half_sec: the reset tests the counter before the increment,
\* so the counter reaches 60 and wraps every 61 iterations.
next_half_sec_late(hs) == IF hs = half_sec_wrap THEN 0 ELSE hs + 1

\* age.py:129-131
next_half_sec(hs) == IF hs + 1 = half_sec_wrap THEN 0 ELSE hs + 1

\* Mutant of release_event: the event test forgets the remembered button state.
release_event_level_only(down, level) == level

\* age.py:137-142: `b_down and s.value`
release_event(down, level) == down /\ level

\* Mutant of button_down: a button once seen is never recorded as released.
button_down_stuck(level) == TRUE

\* age.py:144-146: `not s.value`
button_down(level) == ~level

\* Numbers. Python computes in binary floating point; the model keeps each
\* quantity as an integer count of a fixed unit and truncates each step to it:
\* voltages of the list in 1/3735552 volt (exact), other voltages in
\* microvolt, currents in microampere, charges in nanoampere-hour, the ratio
\* in millionths, minutes in hundredths.

\* One volt in the unit of get_volts: 65536 * 0.684 / 3.3 * 275 (age.py:80-86).
volt_unit == 3735552

\* age.py:20
load_resistance == 15

\* age.py:22
samples_per_minute == 2

\* age.py:23
minutes_per_hour == 60

\* age.py:93, in thousandths of a volt per ampere
slope == -449

\* age.py:94, in microvolt
intercept == 3323000

\* <<q, r>> with a * b = q * c + r and 0 <= r < c, for a, b >= 0 and c > 0,
\* by doubling, so that no intermediate value leaves the 32-bit integers:
\* h is the result for a * (b \div 2) and add is a or 0 with the low bit of b.
qr_double(h, add, c) ==
    <<2 * h[1] + (add \div c) + ((2 * h[2] + (add % c)) \div c),
      (2 * h[2] + (add % c)) % c>>

RECURSIVE mul_div_qr(_, _, _)
mul_div_qr(a, b, c) ==
    IF b = 0 THEN <<0, 0>>
    ELSE CHOOSE qr \in {qr_double(h, IF b % 2 = 1 THEN a ELSE 0, c) :
                          h \in {mul_div_qr(a, b \div 2, c)}} : TRUE

abs(x) == IF x < 0 THEN -x ELSE x

\* a * b / c truncated toward zero, for c # 0.
mul_div(a, b, c) ==
    (IF (a < 0) = ((b < 0) = (c < 0)) THEN -1 ELSE 1)
        * mul_div_qr(abs(a), abs(b), abs(c))[1]

\* sum(voltage), age.py:104
RECURSIVE sum(_)
sum(volt) == IF volt = <<>> THEN 0 ELSE volt[1] + sum(Tail(volt))

\* A voltage of the list in microvolt.
microvolts(v) == mul_div(v, 1000000, volt_unit)

\* Mutant of adjusted_cutoff: the slope is taken with the wrong sign.
adjusted_cutoff_rising(load_current) ==
    ((-slope) * load_current) \div 1000 + intercept

\* age.py:90-96. load_current in microampere, the result in microvolt.
adjusted_cutoff(load_current) == (slope * load_current) \div 1000 + intercept

\* age.py:124, and the values estimate_capacity has computed by then
capacity_totals(minutes, i_avg, energy_used, v_monitor_start, v_monitor_end, v_cutoff, ratio) ==
    [minutes |-> minutes, i_avg |-> i_avg, energy_used |-> energy_used,
     v_monitor_start |-> v_monitor_start, v_monitor_end |-> v_monitor_end,
     v_cutoff |-> v_cutoff, ratio |-> ratio,
     energy_total |-> mul_div(ratio, energy_used, 1000000)]

\* age.py:117-123, start and end in microvolt
capacity_ratio(minutes, i_avg, energy_used, v_monitor_start, v_monitor_end, v_cutoff, start, end) ==
    capacity_totals(minutes, i_avg, energy_used, v_monitor_start,
                    v_monitor_end, v_cutoff,
                    mul_div(start - v_cutoff, 1000000, start - end))

\* age.py:111-122
capacity_used(volt, minutes, i_sum, i_avg) ==
    capacity_ratio(minutes, i_avg,
                   mul_div(i_sum, 1000, samples_per_minute * minutes_per_hour),
                   volt[1], volt[Len(volt)], adjusted_cutoff(i_avg),
                   microvolts(volt[1]), microvolts(volt[Len(volt)]))

\* age.py:105-111
capacity_current(volt, samples, i_sum) ==
    capacity_used(volt, (samples * 100) \div samples_per_minute, i_sum,
                  i_sum \div samples)

\* age.py:99-124, the values estimate_capacity computes when no division
\* raises.
capacity_values(volt) ==
    capacity_current(volt, Len(volt),
                     mul_div(sum(volt), 1000000, volt_unit * load_resistance))

\* The lists of samples the bounds allow.
sample_lists ==
    UNION {[1 .. n -> {get_volts(value) : value \in RawCounts}] :
             n \in 1 .. MaxSamples}

\* capacity_values, computed once for each list that has an estimate.
capacity_table ==
    {<<volt, capacity_values(volt)>> :
       volt \in {l \in sample_lists : l[1] # l[Len(l)]}}

capacity_of(volt) ==
    IF \E entry \in capacity_table : entry[1] = volt
    THEN (CHOOSE entry \in capacity_table : entry[1] = volt)[2]
    ELSE capacity_values(volt)

\* age.py:98-125. The prints happen in order until a division raises
\* ZeroDivisionError: line 111 when the list is empty, line 123 when the first
\* and the last sample are equal. The list itself is only read.
estimate_capacity(volt) ==
    IF Len(volt) = 0
    THEN [out |-> <<L_estimate_after>>, raised |-> TRUE, report |-> <<>>]
    ELSE IF volt[1] = volt[Len(volt)]
    THEN [out |-> <<L_estimate_after, L_average_current, L_capacity_used,
                    L_monitor_start, L_monitor_end, L_adjusted_cutoff>>,
          raised |-> TRUE, report |-> <<>>]
    ELSE [out |-> <<L_estimate_after, L_average_current, L_capacity_used,
                    L_monitor_start, L_monitor_end, L_adjusted_cutoff,
                    L_predicted_total>>,
          raised |-> FALSE, report |-> <<capacity_of(volt)>>]

\* Mutant of monitoring_branch: the charge complete signal is tested before
\* the charge begin signal.
monitoring_branch_complete_first(volt, cb, cc, ca) ==
    IF cc
    THEN [monitoring |-> FALSE, voltage |-> volt,
          out |-> <<L_error_complete>>, raised |-> FALSE,
          report |-> <<>>]
    ELSE IF cb
    THEN LET e == estimate_capacity(volt)
         IN  [monitoring |-> e.raised, voltage |-> volt,
              out |-> <<L_end_monitoring>> \o e.out, raised |-> e.raised,
              report |-> e.report]
    ELSE IF ca
    THEN [monitoring |-> FALSE, voltage |-> volt,
          out |-> <<L_error_abort>>, raised |-> FALSE,
          report |-> <<>>]
    ELSE [monitoring |-> TRUE, voltage |-> volt, out |-> <<>>, raised |-> FALSE,
          report |-> <<>>]

\* Mutant of monitoring_branch: the abort anomaly prints its error but forgets
\* to leave monitoring.
monitoring_branch_abort_stays(volt, cb, cc, ca) ==
    IF cb
    THEN LET e == estimate_capacity(volt)
         IN  [monitoring |-> e.raised, voltage |-> volt,
              out |-> <<L_end_monitoring>> \o e.out, raised |-> e.raised,
              report |-> e.report]
    ELSE IF cc
    THEN [monitoring |-> FALSE, voltage |-> volt,
          out |-> <<L_error_complete>>, raised |-> FALSE,
          report |-> <<>>]
    ELSE IF ca
    THEN [monitoring |-> TRUE, voltage |-> volt,
          out |-> <<L_error_abort>>, raised |-> FALSE,
          report |-> <<>>]
    ELSE [monitoring |-> TRUE, voltage |-> volt, out |-> <<>>, raised |-> FALSE,
          report |-> <<>>]

\* Mutant of monitoring_branch: an iteration without any event leaves
\* monitoring.
monitoring_branch_drops_out(volt, cb, cc, ca) ==
    IF cb
    THEN LET e == estimate_capacity(volt)
         IN  [monitoring |-> e.raised, voltage |-> volt,
              out |-> <<L_end_monitoring>> \o e.out, raised |-> e.raised,
              report |-> e.report]
    ELSE IF cc
    THEN [monitoring |-> FALSE, voltage |-> volt,
          out |-> <<L_error_complete>>, raised |-> FALSE,
          report |-> <<>>]
    ELSE IF ca
    THEN [monitoring |-> FALSE, voltage |-> volt,
          out |-> <<L_error_abort>>, raised |-> FALSE,
          report |-> <<>>]
    ELSE [monitoring |-> FALSE, voltage |-> volt, out |-> <<>>, raised |-> FALSE,
          report |-> <<>>]

\* Mutant of monitoring_branch: the list is emptied once the estimate is made.
monitoring_branch_clears_after_report(volt, cb, cc, ca) ==
    IF cb
    THEN LET e == estimate_capacity(volt)
         IN  [monitoring |-> e.raised, voltage |-> IF e.raised THEN volt ELSE <<>>,
              out |-> <<L_end_monitoring>> \o e.out, raised |-> e.raised,
              report |-> e.report]
    ELSE IF cc
    THEN [monitoring |-> FALSE, voltage |-> volt,
          out |-> <<L_error_complete>>, raised |-> FALSE,
          report |-> <<>>]
    ELSE IF ca
    THEN [monitoring |-> FALSE, voltage |-> volt,
          out |-> <<L_error_abort>>, raised |-> FALSE,
          report |-> <<>>]
    ELSE [monitoring |-> TRUE, voltage |-> volt, out |-> <<>>, raised |-> FALSE,
          report |-> <<>>]

\* Mutant of monitoring_branch: `monitoring = False` is missing after the
\* estimate.
monitoring_branch_report_stays(volt, cb, cc, ca) ==
    IF cb
    THEN LET e == estimate_capacity(volt)
         IN  [monitoring |-> TRUE, voltage |-> volt,
              out |-> <<L_end_monitoring>> \o e.out, raised |-> e.raised,
              report |-> e.report]
    ELSE IF cc
    THEN [monitoring |-> FALSE, voltage |-> volt,
          out |-> <<L_error_complete>>, raised |-> FALSE,
          report |-> <<>>]
    ELSE IF ca
    THEN [monitoring |-> FALSE, voltage |-> volt,
          out |-> <<L_error_abort>>, raised |-> FALSE,
          report |-> <<>>]
    ELSE [monitoring |-> TRUE, voltage |-> volt, out |-> <<>>, raised |-> FALSE,
          report |-> <<>>]

\* age.py:149-162
monitoring_branch(volt, cb, cc, ca) ==
    IF cb
    THEN LET e == estimate_capacity(volt)
         IN  [monitoring |-> e.raised, voltage |-> volt,
              out |-> <<L_end_monitoring>> \o e.out, raised |-> e.raised,
              report |-> e.report]
    ELSE IF cc
    THEN [monitoring |-> FALSE, voltage |-> volt,
          out |-> <<L_error_complete>>, raised |-> FALSE,
          report |-> <<>>]
    ELSE IF ca
    THEN [monitoring |-> FALSE, voltage |-> volt,
          out |-> <<L_error_abort>>, raised |-> FALSE,
          report |-> <<>>]
    ELSE [monitoring |-> TRUE, voltage |-> volt, out |-> <<>>, raised |-> FALSE,
          report |-> <<>>]

\* Mutant of idle_branch: monitoring begins without `voltage = []`.
idle_branch_keeps_samples(volt, cb, cc, ca) ==
    IF cb
    THEN [monitoring |-> FALSE, voltage |-> volt, out |-> <<>>, raised |-> FALSE,
          report |-> <<>>]
    ELSE IF cc
    THEN [monitoring |-> TRUE, voltage |-> volt,
          out |-> <<L_begin_monitoring>>, raised |-> FALSE,
          report |-> <<>>]
    ELSE [monitoring |-> FALSE, voltage |-> volt, out |-> <<>>, raised |-> FALSE,
          report |-> <<>>]

\* Mutant of idle_branch: the charge begin signal starts monitoring too.
idle_branch_begin_starts(volt, cb, cc, ca) ==
    IF cb \/ cc
    THEN [monitoring |-> TRUE, voltage |-> <<>>,
          out |-> <<L_begin_monitoring>>, raised |-> FALSE,
          report |-> <<>>]
    ELSE [monitoring |-> FALSE, voltage |-> volt, out |-> <<>>, raised |-> FALSE,
          report |-> <<>>]

\* age.py:163-174
idle_branch(volt, cb, cc, ca) ==
    IF cb
    THEN [monitoring |-> FALSE, voltage |-> volt, out |-> <<>>, raised |-> FALSE,
          report |-> <<>>]
    ELSE IF cc
    THEN [monitoring |-> TRUE, voltage |-> <<>>,
          out |-> <<L_begin_monitoring>>, raised |-> FALSE,
          report |-> <<>>]
    ELSE [monitoring |-> FALSE, voltage |-> volt, out |-> <<>>, raised |-> FALSE,
          report |-> <<>>]

\* age.py:148-174
handle_state_transitions(mon, volt, cb, cc, ca) ==
    IF mon THEN monitoring_branch(volt, cb, cc, ca)
           ELSE idle_branch(volt, cb, cc, ca)

\* Mutant of sample_due: the sample is taken on every wrap of the counter.
sample_due_every_wrap(mon, hs) == hs = 0

\* Mutant of sample_due: the sample is taken one iteration before the wrap.
sample_due_before_wrap(mon, hs) == mon /\ hs = half_sec_wrap - 1

\* age.py:177, the condition of the periodic sample
sample_due(mon, hs) == mon /\ hs = 0

\* age.py:176-180. A read that raises leaves get_volts and the loop by the
\* exception: nothing is appended or printed.
periodic_sample(mon, hs, volt, value) ==
    IF sample_due(mon, hs)
    THEN IF value = read_failure
         THEN [voltage |-> volt, out |-> <<>>, reads |-> 1, raised |-> TRUE]
         ELSE [voltage |-> Append(volt, get_volts(value)),
               out |-> <<L_minutes_voltage>>, reads |-> 1, raised |-> FALSE]
    ELSE [voltage |-> volt, out |-> <<>>, reads |-> 0, raised |-> FALSE]

\* Mutant of iteration: the periodic sample is taken before the transitions
\* are handled.
iteration_sample_first(mon, volt, hs, cb, cc, ca, value) ==
    LET s == periodic_sample(mon, hs, volt, value)
        t == handle_state_transitions(mon, s.voltage, cb, cc, ca)
    IN  [monitoring |-> t.monitoring, voltage |-> t.voltage,
         out |-> s.out \o t.out, reads |-> s.reads, report |-> t.report,
         pc |-> IF t.raised THEN "fault" ELSE "loop"]

\* age.py:148-180: the transitions, then the periodic sample unless the
\* estimate raised; an exception of either ends the script.
iteration(mon, volt, hs, cb, cc, ca, value) ==
    LET t == handle_state_transitions(mon, volt, cb, cc, ca)
        s == periodic_sample(t.monitoring, hs, t.voltage, value)
    IN  IF t.raised
        THEN [monitoring |-> t.monitoring, voltage |-> t.voltage,
              out |-> t.out, reads |-> 0, report |-> t.report, pc |-> "fault"]
        ELSE [monitoring |-> t.monitoring, voltage |-> s.voltage,
              out |-> t.out \o s.out, reads |-> s.reads, report |-> t.report,
              pc |-> IF s.raised THEN "fault" ELSE "loop"]

----------------------------------------------------------------------------
\* age.py:61-75
Init ==
    /\ half_sec = 0
    /\ b_cb_down = FALSE
    /\ b_cc_down = FALSE
    /\ b_ca_down = FALSE
    /\ monitoring = FALSE
    /\ voltage = <<>>
    /\ event_cb = FALSE
    /\ event_cc = FALSE
    /\ event_ca = FALSE
    /\ s_charge_begin = <<>>
    /\ s_charge_complete = <<>>
    /\ s_charge_abort = <<>>
    /\ out = <<>>
    /\ sense_reads = 0
    /\ elapsed = 0
    /\ report = <<>>
    /\ pc = "start"

\* The count SpecTimed keeps in `elapsed`, after an iteration with outcome r.
next_elapsed(r) ==
    IF r.pc = "loop" /\ r.monitoring /\ monitoring /\ voltage = <<>>
    THEN elapsed + 1
    ELSE 0

\* age.py:127-180, one iteration of the main loop, the sensor read having one
\* of `outcomes`.
Step(outcomes, timed) ==
    /\ pc # "fault"
    /\ \E cb \in pin_reads(b_cb_down), cc \in pin_reads(b_cc_down),
          ca \in pin_reads(b_ca_down) :
         LET hs == next_half_sec(half_sec)
             ecb == release_event(b_cb_down, cb[1])
             ecc == release_event(b_cc_down, cc[1])
             eca == release_event(b_ca_down, ca[1])
             t == handle_state_transitions(monitoring, voltage, ecb, ecc, eca)
             due == ~t.raised /\ sample_due(t.monitoring, hs)
         IN  \E value \in sensor_reads(outcomes, due) :
               LET r == iteration(monitoring, voltage, hs, ecb, ecc, eca, value)
               IN  /\ Len(r.voltage) <= MaxSamples
                   /\ half_sec' = hs
                   /\ event_cb' = ecb
                   /\ event_cc' = ecc
                   /\ event_ca' = eca
                   /\ s_charge_begin' = cb
                   /\ s_charge_complete' = cc
                   /\ s_charge_abort' = ca
                   /\ b_cb_down' = button_down(cb[Len(cb)])
                   /\ b_cc_down' = button_down(cc[Len(cc)])
                   /\ b_ca_down' = button_down(ca[Len(ca)])
                   /\ monitoring' = r.monitoring
                   /\ voltage' = r.voltage
                   /\ out' = r.out
                   /\ sense_reads' = r.reads
                   /\ elapsed' = IF timed THEN next_elapsed(r) ELSE 0
                   /\ report' = r.report
                   /\ pc' = r.pc

\* One iteration with a sensor that returns a count.
Tick == Step(RawCounts, FALSE)

Next == Tick

Spec == Init /\ [][Next]_vars

\* The same loop, with the iterations since monitoring began counted.
TickTimed == Step(RawCounts, TRUE)

NextTimed == TickTimed

SpecTimed == Init /\ [][NextTimed]_vars

\* What a read of a sensor that may raise comes to.
failing_reads == RawCounts \cup {read_failure}

\* The same loop, with a sensor whose read may raise.
TickSensorFault == Step(failing_reads, FALSE)

NextSensorFault == TickSensorFault

SpecSensorFault == Init /\ [][NextSensorFault]_vars

----------------------------------------------------------------------------
\* Vocabulary of the properties.

\* The arbitrated boundary event of an iteration, by the priority
\* Begin > Complete > Abort.
BoundaryEvent(cb, cc, ca) ==
    IF cb THEN "Begin" ELSE IF cc THEN "Complete" ELSE IF ca THEN "Abort"
    ELSE "None"

\* The arbitrated event of the iteration that ended in the current state.
Honored == BoundaryEvent(event_cb, event_cc, event_ca)

Count(lines, l) == Cardinality({i \in DOMAIN lines : lines[i] = l})

\* A capacity report is complete once its last field has been printed.
CapacityReports(lines) == Count(lines, L_predicted_total)

ErrorLines(lines) == Count(lines, L_error_complete) + Count(lines, L_error_abort)

EstimatorRan(lines) == Count(lines, L_estimate_after) > 0

Outcome(r) == <<r.monitoring, r.voltage, r.out, r.reads, r.report, r.pc>>

----------------------------------------------------------------------------
\* C1: in Idle, an iteration whose arbitrated event is Complete enters
\* Monitoring and empties the voltage list before the periodic sample of the
\* same iteration: afterwards the list holds nothing but the sample of this
\* iteration, if one was taken.
C1_IdleCompleteClears ==
    [][(~monitoring /\ BoundaryEvent(event_cb', event_cc', event_ca') = "Complete")
        => /\ monitoring'
           /\ pc' = "loop"
           /\ IF half_sec' = 0
              THEN /\ out' = <<L_begin_monitoring, L_minutes_voltage>>
                   /\ sense_reads' = 1
                   /\ Len(voltage') = 1
              ELSE /\ out' = <<L_begin_monitoring>>
                   /\ sense_reads' = 0
                   /\ voltage' = <<>>]_vars

C1_Witness ==
    /\ pc = "loop" /\ monitoring /\ Honored = "Complete"
    /\ out = <<L_begin_monitoring, L_minutes_voltage>>
    /\ Len(voltage) = 1

\* C2: in Monitoring with a non-empty voltage list, an iteration whose
\* arbitrated event is Begin prints exactly one capacity report and no error
\* line, and ends in Idle.
C2_BeginReports ==
    [][(monitoring /\ voltage # <<>> /\ event_cb')
        => /\ pc' = "loop"
           /\ ~monitoring'
           /\ CapacityReports(out') = 1
           /\ ErrorLines(out') = 0]_vars

\* C3: in Monitoring, an iteration whose arbitrated event is Complete or Abort
\* prints exactly the one error line of that signal, no capacity report, does
\* not run the estimator and ends in Idle, whatever the voltage list holds.
C3_AnomalyToIdle ==
    [][(monitoring /\ BoundaryEvent(event_cb', event_cc', event_ca')
                        \in {"Complete", "Abort"})
        => /\ pc' = "loop"
           /\ ~monitoring'
           /\ out' = IF event_cc' THEN <<L_error_complete>> ELSE <<L_error_abort>>
           /\ CapacityReports(out') = 0
           /\ ~EstimatorRan(out')]_vars

C3_Witness ==
    /\ pc = "loop" /\ ~monitoring /\ Honored = "Abort"
    /\ out = <<L_error_abort>>
    /\ voltage # <<>>

\* C4: when Begin is arbitrated in Monitoring with an empty voltage list, no
\* capacity report is printed, the estimate is skipped, a "no samples
\* collected" notice is printed, the iteration ends in Idle and the loop goes
\* on.
C4_EmptySeriesGuarded ==
    [][(monitoring /\ voltage = <<>> /\ event_cb')
        => /\ pc' = "loop"
           /\ ~monitoring'
           /\ CapacityReports(out') = 0
           /\ Count(out', "no samples collected") = 1]_vars

\* C5: when Begin is arbitrated in Monitoring and the first and the last
\* sample are equal, the estimate does not fault: an "indeterminate cutoff
\* ratio" outcome is printed instead of a predicted capacity and the
\* iteration ends in Idle.
C5_FlatSeriesGuarded ==
    [][(monitoring /\ voltage # <<>> /\ voltage[1] = voltage[Len(voltage)]
           /\ event_cb')
        => /\ pc' = "loop"
           /\ ~monitoring'
           /\ CapacityReports(out') = 0
           /\ Count(out', "indeterminate cutoff ratio") = 1]_vars

\* C6: for each of the three signals, an iteration reports a release event
\* exactly when the signal was asserted (read FALSE) in the previous iteration
\* and is not asserted (reads TRUE) in this one; the first iteration reports
\* none. The level of the previous iteration is the one it recorded, the level
\* of this iteration is the first one it reads.
EdgeRule(first, before, now, event) ==
    event = (IF first THEN FALSE ELSE ~before[Len(before)] /\ now[1])

C6_ReleaseEdge ==
    [][/\ EdgeRule(pc = "start", s_charge_begin, s_charge_begin', event_cb')
       /\ EdgeRule(pc = "start", s_charge_complete, s_charge_complete', event_cc')
       /\ EdgeRule(pc = "start", s_charge_abort, s_charge_abort', event_ca')]_vars

C6_Witness ==
    /\ pc = "loop"
    /\ event_ca /\ s_charge_abort = <<TRUE, TRUE>>
    /\ ~event_cb /\ s_charge_begin = <<FALSE, FALSE>>
    /\ ~event_cc /\ s_charge_complete = <<TRUE>>

\* C7: an iteration behaves exactly as if only its arbitrated event had fired:
\* as Begin alone when the begin edge fired, as Complete alone when complete
\* fired without begin, as Abort alone when only abort fired, in Idle and in
\* Monitoring.
C7_Arbitration ==
    [][\E value \in RawCounts :
         LET e == BoundaryEvent(event_cb', event_cc', event_ca')
         IN  <<monitoring', voltage', out', sense_reads', report', pc'>>
               = Outcome(iteration(monitoring, voltage, half_sec',
                                   e = "Begin", e = "Complete", e = "Abort",
                                   value))]_vars

C7_Witness ==
    /\ pc = "loop" /\ ~monitoring
    /\ event_cb /\ event_cc /\ event_ca
    /\ CapacityReports(out) = 1

\* C8: an iteration without an arbitrated event leaves monitoring as it was.
C8_NoEventNoChange ==
    [][BoundaryEvent(event_cb', event_cc', event_ca') = "None"
        => monitoring' = monitoring]_vars

C8_Witness ==
    /\ pc = "loop" /\ monitoring /\ Honored = "None"
    /\ half_sec = 0
    /\ out = <<L_minutes_voltage>>

\* C9: in Idle, an iteration whose arbitrated event is Begin or Abort stays
\* in Idle, leaves the voltage list unchanged and prints nothing.
C9_IdleBeginAbortNothing ==
    [][(~monitoring /\ BoundaryEvent(event_cb', event_cc', event_ca')
                         \in {"Begin", "Abort"})
        => /\ ~monitoring'
           /\ voltage' = voltage
           /\ out' = <<>>
           /\ pc' = "loop"]_vars

C9_Witness ==
    /\ pc = "loop" /\ ~monitoring /\ Honored = "Begin"
    /\ out = <<>>
    /\ voltage # <<>>

\* C10: an iteration that ends in Idle reads no voltage and appends nothing
\* to the voltage list, whatever the counter.
C10_IdleNoSample ==
    [][~monitoring'
        => /\ sense_reads' = 0
           /\ Count(out', L_minutes_voltage) = 0
           /\ voltage' = voltage]_vars

C10_Witness ==
    /\ pc = "loop" /\ ~monitoring
    /\ half_sec = 0
    /\ Honored = "None"
    /\ voltage # <<>>

\* C11: the counter advances by one per iteration and wraps to zero every 60
\* iterations, whatever the events and the monitoring flag; it starts at 0 and
\* stays in 0..59. An iteration that reaches the sample test with monitoring
\* set and the counter wrapped to zero reads one voltage and appends it to the
\* end of the list; every other iteration reads and appends nothing.
SeriesAfterTransition ==
    IF ~monitoring /\ monitoring' THEN <<>> ELSE voltage

C11_CounterAndSample ==
    [][/\ pc = "start" => half_sec = 0
       /\ half_sec \in 0 .. (half_sec_wrap - 1)
       /\ half_sec' = (half_sec + 1) % half_sec_wrap
       /\ IF pc' = "loop" /\ monitoring' /\ half_sec' = 0
          THEN /\ sense_reads' = 1
               /\ \E value \in RawCounts :
                    voltage' = Append(SeriesAfterTransition, get_volts(value))
          ELSE /\ sense_reads' = 0
               /\ voltage' = SeriesAfterTransition]_vars

C11_Witness ==
    /\ pc = "loop" /\ monitoring /\ Honored = "None"
    /\ half_sec = 0
    /\ sense_reads = 1
    /\ Len(voltage) = 2

\* C12 as stated: after a Complete honored in Idle the first sample comes
\* strictly later than the transition tick, the list being still empty at the
\* end of that tick.
C12_EmptyAfterTransitionTick ==
    [][(~monitoring /\ monitoring') => voltage' = <<>>]_vars

\* C12, amended: the first sample of the new list is appended at the first
\* iteration, the transition's own included, on which the counter wraps to
\* zero. When the counter wraps on the transition tick the list has one
\* sample at the end of that tick; otherwise the list stays empty while
\* monitoring and the sample is appended between 1 and 59 iterations after
\* the transition tick.
C12_FirstSampleAtWrap ==
    [][/\ (~monitoring /\ monitoring')
            => /\ elapsed' = 0
               /\ Len(voltage') = IF half_sec' = 0 THEN 1 ELSE 0
       /\ (pc' = "loop" /\ monitoring' /\ voltage' = <<>>)
            => /\ half_sec' # 0
               /\ elapsed' + 1 <= half_sec'
       /\ (monitoring /\ voltage = <<>> /\ pc' = "loop" /\ monitoring'
             /\ half_sec' = 0)
            => /\ Len(voltage') = 1
               /\ sense_reads' = 1
               /\ elapsed' \in 1 .. (half_sec_wrap - 1)]_vars

C12_Witness ==
    /\ pc = "loop" /\ monitoring
    /\ Len(voltage) = 1
    /\ sense_reads = 1
    /\ elapsed = half_sec_wrap - 1

\* C13: an iteration whose sensor read fails appends nothing, leaves the
\* monitoring flag and the list as the transitions left them, and the loop
\* goes on to its next iteration.
C13_ReadFailureSkipsSample ==
    [][(sense_reads' = 1 /\ Count(out', L_minutes_voltage) = 0)
         => /\ pc' = "loop"
            /\ monitoring'
            /\ voltage' = SeriesAfterTransition]_vars

\* C14: the loop never halts: no reachable state is one in which an
\* exception has ended the script.
C14_NeverHalts == pc # "fault"

\* C16: the voltage list is emptied only by the Idle to Monitoring
\* transition: an iteration from Monitoring to Idle (estimate, complete
\* anomaly, abort anomaly) and an iteration that stays in Idle leave it as it
\* was, and a list that is not an extension of the one before comes from a
\* Complete honored in Idle.
IsPrefix(a, b) == Len(a) <= Len(b) /\ SubSeq(b, 1, Len(a)) = a

C16_OnlyCompleteEmpties ==
    [][/\ ~monitoring' => voltage' = voltage
       /\ ~IsPrefix(voltage, voltage')
            => /\ ~monitoring /\ monitoring'
               /\ BoundaryEvent(event_cb', event_cc', event_ca') = "Complete"]_vars

C16_Witness ==
    /\ pc = "loop" /\ ~monitoring /\ Honored = "Complete"
    /\ out = <<L_error_complete>>
    /\ Len(voltage) = 2

\* C17: an iteration prints at most one capacity report, only when it begins
\* in Monitoring and honors Begin, and it then ends in Idle; Monitoring is
\* entered only by a Complete honored in Idle, so two reports are separated by
\* such an iteration.
C17_OneReportPerCycle ==
    [][/\ CapacityReports(out') <= 1
       /\ CapacityReports(out') = 1
            => monitoring /\ event_cb' /\ ~monitoring' /\ pc' = "loop"
       /\ (~monitoring /\ monitoring')
            => BoundaryEvent(event_cb', event_cc', event_ca') = "Complete"]_vars

C17_Witness ==
    /\ pc = "loop" /\ ~monitoring
    /\ event_cb /\ ~event_cc /\ ~event_ca
    /\ CapacityReports(out) = 1
    /\ Len(voltage) = 2

\* C19: the three button states are recorded in every iteration, whatever the
\* monitoring flag and the honored event; an edge that fired but was outranked
\* changes nothing in its iteration, and an event can fire only when the
\* iteration before recorded the button as down.
LastRead(reads) == reads[Len(reads)]

Outranked ==
    \/ event_cb' /\ (event_cc' \/ event_ca')
    \/ event_cc' /\ event_ca'

C19_LostEdgeDropped ==
    [][/\ b_cb_down' = ~LastRead(s_charge_begin')
       /\ b_cc_down' = ~LastRead(s_charge_complete')
       /\ b_ca_down' = ~LastRead(s_charge_abort')
       /\ event_cb' => pc # "start" /\ ~LastRead(s_charge_begin)
       /\ event_cc' => pc # "start" /\ ~LastRead(s_charge_complete)
       /\ event_ca' => pc # "start" /\ ~LastRead(s_charge_abort)
       /\ Outranked =>
            \E value \in RawCounts :
              LET e == BoundaryEvent(event_cb', event_cc', event_ca')
              IN  /\ monitoring' = iteration(monitoring, voltage, half_sec',
                                             e = "Begin", e = "Complete",
                                             e = "Abort", value).monitoring
                  /\ voltage' = iteration(monitoring, voltage, half_sec',
                                          e = "Begin", e = "Complete",
                                          e = "Abort", value).voltage]_vars

C19_Witness ==
    /\ pc = "loop"
    /\ event_cb /\ event_cc /\ ~event_ca
    /\ ~b_cc_down /\ s_charge_complete = <<TRUE, TRUE>>
    /\ ~monitoring /\ out = <<>>

\* C20: whenever a button state goes from down before an iteration to up
\* after it, the iteration reported the release event of that signal.
C20_NoEdgeLost ==
    [][/\ (b_cb_down /\ ~b_cb_down') => event_cb'
       /\ (b_cc_down /\ ~b_cc_down') => event_cc'
       /\ (b_ca_down /\ ~b_ca_down') => event_ca']_vars

\* C15: a completed estimate comes from a list of at least two samples with
\* different first and last sample, and its values are those of the formulas
\* i_avg = (sum/R)/N, charge_used = (sum/R)/2/60, v_cutoff = -0.449*i_avg +
\* 3.323, total = ((v_start - v_cutoff)/(v_start - v_end)) * charge_used and
\* minutes = N/2 with R = 15; for the list of the two readings nearest to
\* 3.3 V and 3.0 V they are 0.210 A, 0.00350 Ah, 3.23 V, 0.238 and
\* 0.000832 Ah to three significant figures.
ClaimedValues(series) ==
    LET N == Len(series)
        i_sum == mul_div(sum(series), 1000000, 3735552 * 15)
        i_avg == i_sum \div N
        charge_used == mul_div(mul_div(i_sum, 1000, 2), 1, 60)
        v_start == series[1]
        v_end == series[N]
        v_cutoff == (-449 * i_avg) \div 1000 + 3323000
        ratio == mul_div(microvolts(v_start) - v_cutoff, 1000000,
                         microvolts(v_start) - microvolts(v_end))
    IN  [minutes |-> (100 * N) \div 2, i_avg |-> i_avg,
         energy_used |-> charge_used,
         v_monitor_start |-> v_start, v_monitor_end |-> v_end,
         v_cutoff |-> v_cutoff, ratio |-> ratio,
         energy_total |-> mul_div(ratio, charge_used, 1000000)]

\* The readings of the sensor nearest to 3.3 V and 3.0 V.
ExampleSeries == <<get_volts(44827), get_volts(40752)>>

C15_EstimateValues ==
    report # <<>> =>
        /\ Len(voltage) >= 2
        /\ voltage[1] # voltage[Len(voltage)]
        /\ report[1] = ClaimedValues(voltage)
        /\ voltage = ExampleSeries =>
             /\ report[1].minutes = 100
             /\ report[1].i_avg \in 209500 .. 210499
             /\ report[1].energy_used \in 3495000 .. 3504999
             /\ report[1].v_cutoff \in 3225000 .. 3234999
             /\ report[1].ratio \in 237500 .. 238499
             /\ report[1].energy_total \in 831500 .. 832499

C15_Witness ==
    /\ pc = "loop" /\ ~monitoring
    /\ report # <<>>
    /\ voltage = ExampleSeries

\* C18: when an event is honored in Monitoring in an iteration in which the
\* counter wraps to zero, no voltage is read or appended in that iteration,
\* and the estimate of a Begin is made over the list as it stood before the
\* iteration.
C18_TransitionBeforeSample ==
    [][(monitoring /\ half_sec' = 0
          /\ BoundaryEvent(event_cb', event_cc', event_ca') # "None")
        => /\ sense_reads' = 0
           /\ Count(out', L_minutes_voltage) = 0
           /\ voltage' = voltage
           /\ event_cb' => report' = estimate_capacity(voltage).report
           /\ report' # <<>> =>
                /\ report'[1].minutes = (100 * Len(voltage)) \div 2
                /\ report'[1].v_monitor_end = voltage[Len(voltage)]]_vars

C18_Witness ==
    /\ pc = "loop" /\ ~monitoring /\ Honored = "Begin"
    /\ half_sec = 0
    /\ report # <<>>
    /\ sense_reads = 0

====
